---- MODULE Spec2Model ----
(***************************************************************************)
(* FitLife Pro (src/p3.py) and the console symptom chatbot                 *)
(* (src/chatbot.py): the profile/target calculator, the symptom matcher    *)
(* and the meal plan generator, as a state machine.                        *)
(*                                                                         *)
(* The Python code computes in IEEE-754 binary64.  The model carries that  *)
(* arithmetic exactly (section 1): a double is sgn * m * 2^e with m a      *)
(* 53-bit integer kept as 14-bit limbs, and every operation rounds to      *)
(* nearest, ties to even, as the hardware does.  The claims are stated in  *)
(* exact integer arithmetic, so that a formula compares what the code      *)
(* computes with what the specification says it should be.                 *)
(***************************************************************************)
EXTENDS Integers, Sequences, FiniteSets, TLC

(***************************************************************************)
(* 1. binary64 arithmetic                                                  *)
(***************************************************************************)

\* Natural numbers of any size: little-endian sequences of limbs, no zero
\* limb at the high end, zero is << >>.
LimbBits == 7 + 7
Base == 2 ^ LimbBits
MantBits == 52 + 1

Abs(n) == IF n < 0 THEN -n ELSE n
Sign(n) == IF n < 0 THEN -1 ELSE 1
Min(a, b) == IF a <= b THEN a ELSE b
Max(a, b) == IF a >= b THEN a ELSE b

RECURSIVE BigNorm(_)
BigNorm(a) ==
    IF a = << >> THEN << >>
    ELSE IF a[Len(a)] = 0 THEN BigNorm(SubSeq(a, 1, Len(a) - 1))
    ELSE a

RECURSIVE BigFromInt(_)
BigFromInt(n) ==
    IF n = 0 THEN << >> ELSE <<n % Base>> \o BigFromInt(n \div Base)

RECURSIVE BigToInt(_)
BigToInt(a) ==
    IF a = << >> THEN 0 ELSE Head(a) + Base * BigToInt(Tail(a))

RECURSIVE BigMulSmallC(_, _, _)
BigMulSmallC(a, k, c) ==
    IF a = << >> THEN BigFromInt(c)
    ELSE LET t == Head(a) * k + c
         IN  <<t % Base>> \o BigMulSmallC(Tail(a), k, t \div Base)

\* a * k for 0 <= k < 2^16
BigMulSmall(a, k) == BigNorm(BigMulSmallC(a, k, 0))

RECURSIVE BigAddC(_, _, _)
BigAddC(a, b, c) ==
    IF a = << >> /\ b = << >> THEN BigFromInt(c)
    ELSE LET x == IF a = << >> THEN 0 ELSE Head(a)
             y == IF b = << >> THEN 0 ELSE Head(b)
             t == x + y + c
         IN  <<t % Base>>
               \o BigAddC(IF a = << >> THEN a ELSE Tail(a),
                          IF b = << >> THEN b ELSE Tail(b), t \div Base)

BigAdd(a, b) == BigNorm(BigAddC(a, b, 0))

RECURSIVE BigSubC(_, _, _)
BigSubC(a, b, br) ==
    IF a = << >> THEN << >>
    ELSE LET y == IF b = << >> THEN 0 ELSE Head(b)
             t == Head(a) - y - br
         IN  <<t % Base>>
               \o BigSubC(Tail(a), IF b = << >> THEN b ELSE Tail(b),
                          IF t < 0 THEN 1 ELSE 0)

\* a - b for a >= b
BigSub(a, b) == BigNorm(BigSubC(a, b, 0))

RECURSIVE BigCmpHi(_, _, _)
BigCmpHi(a, b, i) ==
    IF i = 0 THEN 0
    ELSE IF a[i] < b[i] THEN -1
    ELSE IF a[i] > b[i] THEN 1
    ELSE BigCmpHi(a, b, i - 1)

\* -1, 0, 1 as a < b, a = b, a > b
BigCmp(a, b) ==
    IF Len(a) < Len(b) THEN -1
    ELSE IF Len(a) > Len(b) THEN 1
    ELSE BigCmpHi(a, b, Len(a))

RECURSIVE BigMulR(_, _)
BigMulR(a, b) ==
    IF b = << >> THEN << >>
    ELSE BigAddC(BigMulSmallC(a, Head(b), 0), <<0>> \o BigMulR(a, Tail(b)), 0)

BigMul(a, b) == BigNorm(BigMulR(a, b))

RECURSIVE BigDivSmallR(_, _)
BigDivSmallR(a, d) ==
    IF a = << >> THEN [q |-> << >>, r |-> 0]
    ELSE LET hi == BigDivSmallR(Tail(a), d)
             t  == hi.r * Base + Head(a)
         IN  [q |-> <<t \div d>> \o hi.q, r |-> t % d]

\* quotient and remainder of a by d, 0 < d <= 2^16
BigDivSmall(a, d) ==
    LET x == BigDivSmallR(a, d) IN [q |-> BigNorm(x.q), r |-> x.r]

RECURSIVE BitLenSmall(_)
BitLenSmall(n) == IF n = 0 THEN 0 ELSE 1 + BitLenSmall(n \div 2)

BigBitLen(a) ==
    IF a = << >> THEN 0
    ELSE LimbBits * (Len(a) - 1) + BitLenSmall(a[Len(a)])

BigShl(a, s) ==
    IF a = << >> THEN << >>
    ELSE [i \in 1..(s \div LimbBits) |-> 0] \o BigMulSmall(a, 2 ^ (s % LimbBits))

\* floor(a / 2^s) and whether a bit was shifted out
BigShr(a, s) ==
    LET drop == Min(s \div LimbBits, Len(a))
        x    == BigDivSmall(SubSeq(a, drop + 1, Len(a)), 2 ^ (s % LimbBits))
    IN  [q |-> x.q,
         sticky |-> x.r # 0 \/ \E i \in 1..drop : a[i] # 0]

BigOdd(a) == a # << >> /\ a[1] % 2 = 1

\* A double: sgn * m * 2^e, m = << >> (zero) or 2^52 <= m < 2^53.
\* Each operation below takes its operands through a one-element set, so
\* that an operand given as an expression is evaluated once.
DZero == [sgn |-> 1, m |-> << >>, e |-> 0]

\* DRound on a magnitude n of len bits, already shifted: sh is n without its
\* len - MantBits - 1 lowest bits.
DRoundShifted(sgn, e, sticky, s, sh) ==
    CHOOSE d \in
        {IF BigBitLen(r) > MantBits
         THEN [sgn |-> sgn, m |-> BigDivSmall(r, 2).q, e |-> e + s + 1]
         ELSE [sgn |-> sgn, m |-> r, e |-> e + s] :
            r \in {IF BigOdd(sh.q) /\ (sh.sticky \/ sticky \/ BigOdd(q))
                   THEN BigAdd(q, <<1>>) ELSE q : q \in {BigDivSmall(sh.q, 2).q}}} : TRUE

DRoundLen(sgn, n, e, sticky, len) ==
    IF n = << >> THEN DZero
    ELSE IF len <= MantBits
    THEN [sgn |-> sgn, m |-> BigShl(n, MantBits - len), e |-> e - (MantBits - len)]
    ELSE CHOOSE d \in {DRoundShifted(sgn, e, sticky, len - MantBits, sh) :
                          sh \in {BigShr(n, len - MantBits - 1)}} : TRUE

\* Round sgn * (n + a fraction, nonzero iff sticky) * 2^e to the nearest
\* double, ties to even.
DRound(sgn, n, e, sticky) ==
    CHOOSE d \in {DRoundLen(sgn, x, e, sticky, len) : <<x, len>> \in {<<n, BigBitLen(n)>>}} : TRUE

DFromInt(n) ==
    IF n = 0 THEN DZero ELSE DRound(Sign(n), BigFromInt(Abs(n)), 0, FALSE)

DNeg(a) == [a EXCEPT !.sgn = -a.sgn]

DMulOf(a, b) ==
    IF a.m = << >> \/ b.m = << >> THEN DZero
    ELSE DRound(a.sgn * b.sgn, BigMul(a.m, b.m), a.e + b.e, FALSE)

DMul(a, b) == CHOOSE d \in {DMulOf(x, y) : x \in {a}, y \in {b}} : TRUE

DDivIntOf(a, d) ==
    IF a.m = << >> THEN DZero
    ELSE CHOOSE r \in {DRound(a.sgn * Sign(d), x.q, a.e - 2 * LimbBits, x.r # 0) :
                          x \in {BigDivSmall(BigShl(a.m, 2 * LimbBits), Abs(d))}} : TRUE

\* a / d for an integer d, 0 < |d| <= 2^16
DDivInt(a, d) == CHOOSE r \in {DDivIntOf(x, d) : x \in {a}} : TRUE

DAddAligned(a, b, em, x, y) ==
    IF a.sgn = b.sgn THEN DRound(a.sgn, BigAdd(x, y), em, FALSE)
    ELSE CHOOSE d \in {IF c = 0 THEN DZero
                       ELSE IF c > 0 THEN DRound(a.sgn, BigSub(x, y), em, FALSE)
                       ELSE DRound(b.sgn, BigSub(y, x), em, FALSE) :
                          c \in {BigCmp(x, y)}} : TRUE

DAddOf(a, b) ==
    IF a.m = << >> THEN b
    ELSE IF b.m = << >> THEN a
    ELSE CHOOSE d \in {DAddAligned(a, b, Min(a.e, b.e), x, y) :
                          x \in {BigShl(a.m, a.e - Min(a.e, b.e))},
                          y \in {BigShl(b.m, b.e - Min(a.e, b.e))}} : TRUE

DAdd(a, b) == CHOOSE d \in {DAddOf(x, y) : x \in {a}, y \in {b}} : TRUE

\* -1, 0, 1 as a < b, a = b, a > b
DCmp(a, b) ==
    CHOOSE c \in {IF d.m = << >> THEN 0 ELSE d.sgn : d \in {DAdd(a, DNeg(b))}} : TRUE

\* The decimal literal n / d (d a power of ten), and Python's int / int.
DLit(n, d) == DDivInt(DFromInt(n), d)

DTruncOf(a) ==
    IF a.m = << >> THEN 0
    ELSE IF a.e >= 0 THEN a.sgn * BigToInt(BigShl(a.m, a.e))
    ELSE a.sgn * BigToInt(BigShr(a.m, -a.e).q)

\* int(a): toward zero
DTrunc(a) == CHOOSE n \in {DTruncOf(x) : x \in {a}} : TRUE

DRintOf(a) ==
    IF a.m = << >> \/ a.e >= 0 THEN DTruncOf(a)
    ELSE CHOOSE n \in
            {a.sgn * (IF BigOdd(sh.q) /\ (sh.sticky \/ q % 2 = 1) THEN q + 1 ELSE q) :
                <<sh, q>> \in {<<x, BigToInt(x.q) \div 2>> :
                                  x \in {BigShr(a.m, -a.e - 1)}}} : TRUE

\* rint(a): to the nearest integer, ties to even
DRint(a) == CHOOSE n \in {DRintOf(x) : x \in {a}} : TRUE

(***************************************************************************)
(* 2. State                                                                *)
(***************************************************************************)

VARIABLES
    user,          \* st.session_state["user"]: Unset, None or the profile
    profile_file,  \* user_profile.json: the stored profile, or None (no file)
    weight_log,    \* weight_log.csv
    today,         \* datetime.now(), as a day number
    df_food,       \* the catalog load_databases returns: None or its rows
    plan,          \* st.session_state["plan"]: Unset or [days |-> the stored plan]
    plan_call,     \* the last call of generate_meal_plan: None or its record
    df,            \* chatbot.py: the Symptom column of df, title-cased
    running,       \* chatbot.py: Chatbot()'s loop is running
    reply,         \* chatbot.py: None, or the last input and what Matcher gave
    symptom_csv,   \* chatbot.py: the file symptom_database.csv.csv
    error,         \* chatbot.py: the exception that ended the program, or ""
    food_log,      \* food_log.csv
    exercise_log,  \* exercise_log.csv
    water_log,     \* water_log_detailed.csv
    custom_food,   \* custom_foods.csv
    food_db,       \* Enhanced_Indian_Food_Nutrition.csv
    exercise_db,   \* Compendium_of_Physical_Activities_2024.csv
    symptom_db,    \* symptom_database.csv
    stats,         \* what get_daily_stats returned to the sidebar, or None
    dashboard      \* the metrics of the last Dashboard page, or None

planner == <<df_food, plan, plan_call>>

chatbot == <<df, running, reply, symptom_csv, error>>

logs == <<food_log, exercise_log, water_log>>

catalogs == <<food_db, exercise_db, symptom_db>>

views == <<stats, dashboard>>

vars == <<user, profile_file, weight_log, today, planner, chatbot, logs, custom_food,
          catalogs, views>>

None == [None |-> TRUE]
\* "user" not in st.session_state
Unset == [Unset |-> TRUE]

\* Rows of food_database.csv as load_databases returns them.
Paneer == [Dish_Name |-> "Paneer Butter Masala", Calories_per_Serving |-> 350,
           Protein_per_Serving |-> 12, Diet |-> "Veg", Serving_Unit |-> "1 bowl"]
Chicken == [Dish_Name |-> "Chicken Curry", Calories_per_Serving |-> 400,
            Protein_per_Serving |-> 25, Diet |-> "Non-Veg", Serving_Unit |-> "1 bowl"]
Idli == [Dish_Name |-> "Idli", Calories_per_Serving |-> 60,
         Protein_per_Serving |-> 2, Diet |-> "Veg", Serving_Unit |-> "1 piece"]
\* Rows added through "Add custom food": Calories has min_value 0, and the
\* row carries no Serving Unit.
BlackCoffee == [Dish_Name |-> "Black Coffee", Calories_per_Serving |-> 0,
                Protein_per_Serving |-> 0, Diet |-> "Veg", Serving_Unit |-> "nan"]
ProteinBar == [Dish_Name |-> "Protein Bar", Calories_per_Serving |-> 151,
               Protein_per_Serving |-> 10, Diet |-> "Veg", Serving_Unit |-> "nan"]
FamilyPizza == [Dish_Name |-> "Family Pizza", Calories_per_Serving |-> 1949,
                Protein_per_Serving |-> 80, Diet |-> "Non-Veg", Serving_Unit |-> "nan"]
Thali == [Dish_Name |-> "Thali", Calories_per_Serving |-> 1400,
          Protein_per_Serving |-> 40, Diet |-> "Veg", Serving_Unit |-> "nan"]

\* A pandas DataFrame, as its rows in index order.
DataFrame(rows) == [rows |-> rows]

\* A CSV file: absent, or present with or without its header line and rows.
\* Its size is zero iff it has neither.
NoFile == [exists |-> FALSE, header |-> FALSE, rows |-> << >>]
HeaderOnly == [exists |-> TRUE, header |-> TRUE, rows |-> << >>]
SizeZero(f) == f.exists /\ ~f.header /\ f.rows = << >>

\* Strings the code searches in are sequences of one-character strings.
UpperCase == <<"A", "B", "C", "D", "E", "F", "G", "H", "I", "J", "K", "L", "M", "N", "O", "P", "Q", "R", "S", "T", "U", "V", "W", "X", "Y", "Z">>
LowerCase == <<"a", "b", "c", "d", "e", "f", "g", "h", "i", "j", "k", "l", "m", "n", "o", "p", "q", "r", "s", "t", "u", "v", "w", "x", "y", "z">>

\* str.lower()
str_lower(s) ==
    [i \in DOMAIN s |->
        IF \E k \in DOMAIN UpperCase : UpperCase[k] = s[i]
        THEN LowerCase[CHOOSE k \in DOMAIN UpperCase : UpperCase[k] = s[i]]
        ELSE s[i]]

\* sub in s
Contains(s, sub) ==
    \E i \in 0..(Len(s) - Len(sub)) : SubSeq(s, i + 1, i + Len(sub)) = sub

\* FILES: the file system paths
FILES ==
    [profile |->
        <<"u", "s", "e", "r", "_", "p", "r", "o", "f", "i", "l", "e", ".", "j", "s", "o", "n">>,
     food_log |->
        <<"f", "o", "o", "d", "_", "l", "o", "g", ".", "c", "s", "v">>,
     exercise_log |->
        <<"e", "x", "e", "r", "c", "i", "s", "e", "_", "l", "o", "g", ".", "c", "s", "v">>,
     water_log |->
        <<"w", "a", "t", "e", "r", "_", "l", "o", "g", "_", "d", "e", "t", "a", "i", "l", "e", "d", ".", "c", "s", "v">>,
     weight_log |->
        <<"w", "e", "i", "g", "h", "t", "_", "l", "o", "g", ".", "c", "s", "v">>,
     custom_food |->
        <<"c", "u", "s", "t", "o", "m", "_", "f", "o", "o", "d", "s", ".", "c", "s", "v">>,
     food_db |->
        <<"E", "n", "h", "a", "n", "c", "e", "d", "_", "I", "n", "d", "i", "a", "n", "_", "F", "o", "o", "d", "_", "N", "u", "t", "r", "i", "t", "i", "o", "n", ".", "c", "s", "v">>,
     exercise_db |->
        <<"C", "o", "m", "p", "e", "n", "d", "i", "u", "m", "_", "o", "f", "_", "P", "h", "y", "s", "i", "c", "a", "l", "_", "A", "c", "t", "i", "v", "i", "t", "i", "e", "s", "_", "2", "0", "2", "4", ".", "c", "s", "v">>,
     symptom_db |->
        <<"s", "y", "m", "p", "t", "o", "m", "_", "d", "a", "t", "a", "b", "a", "s", "e", ".", "c", "s", "v">>]

\* The letters of the dish names of the catalogs below.
Spelling(name) ==
    CASE name = "Egg Curry" ->
            <<"E", "g", "g", " ", "C", "u", "r", "r", "y">>
      [] name = "Dal Fry" ->
            <<"D", "a", "l", " ", "F", "r", "y">>
      [] name = "Fish Fry" ->
            <<"F", "i", "s", "h", " ", "F", "r", "y">>
      [] name = "Eggplant Fry" ->
            <<"E", "g", "g", "p", "l", "a", "n", "t", " ", "F", "r", "y">>
      [] name = "Paneer Butter Masala" ->
            <<"P", "a", "n", "e", "e", "r", " ", "B", "u", "t", "t", "e", "r", " ", "M", "a", "s", "a", "l", "a">>
      [] name = "Chicken Curry" ->
            <<"C", "h", "i", "c", "k", "e", "n", " ", "C", "u", "r", "r", "y">>
      [] name = "Idli" ->
            <<"I", "d", "l", "i">>
      [] name = "Black Coffee" ->
            <<"B", "l", "a", "c", "k", " ", "C", "o", "f", "f", "e", "e">>
      [] name = "Protein Bar" ->
            <<"P", "r", "o", "t", "e", "i", "n", " ", "B", "a", "r">>
      [] name = "Family Pizza" ->
            <<"F", "a", "m", "i", "l", "y", " ", "P", "i", "z", "z", "a">>
      [] name = "Thali" ->
            <<"T", "h", "a", "l", "i">>
      [] name = "Roti" ->
            <<"R", "o", "t", "i">>

\* A date that pd.to_datetime(..., errors='coerce') turns into NaT; a
\* parseable date is its day number.
NaT == -1

\* Rows of a food catalog that has no Diet column.
EggCurry == [Dish_Name |-> "Egg Curry", Calories_per_Serving |-> 250,
             Protein_per_Serving |-> 14, Serving_Unit |-> "1 bowl"]
DalFry == [Dish_Name |-> "Dal Fry", Calories_per_Serving |-> 150,
           Protein_per_Serving |-> 8, Serving_Unit |-> "1 bowl"]

\* initialize_databases(), for one file: a missing file is created with its
\* header and, for a catalog, its default rows.
created(f, rows) == IF f.exists THEN f ELSE [exists |-> TRUE, header |-> TRUE, rows |-> rows]

\* The default catalogs: three of the twelve dishes, the Symptom column of
\* three of the nine symptoms, two of the six activities.
default_food_db == <<Paneer, Chicken, Idli>>
default_symptom_db == <<[Symptom |-> "Headache"], [Symptom |-> "Fever"], [Symptom |-> "Cold"]>>
default_exercise_db ==
    <<[Description |-> "Yoga", MET_Value |-> DLit(25, 10)],
      [Description |-> "Swimming", MET_Value |-> DLit(80, 10)]>>

\* load_data_safe: None for a missing file, for a file of size zero
\* (EmptyDataError) and for a file without rows (df.empty).
load_data_safe(f) ==
    IF ~f.exists THEN None
    ELSE IF SizeZero(f) THEN None
    ELSE IF f.rows = << >> THEN None
    ELSE DataFrame(f.rows)

\* log_data that writes the file anew on every call.
log_data_overwrite(f, data_dict) ==
    [exists |-> TRUE, header |-> TRUE, rows |-> <<data_dict>>]

\* log_data: the file after the call.
log_data(f, data_dict) ==
    IF ~f.exists \/ SizeZero(f)
    THEN [exists |-> TRUE, header |-> TRUE, rows |-> <<data_dict>>]
    ELSE [f EXCEPT !.rows = Append(@, data_dict)]

\* HYDRATION_FACTORS.get(beverage, 1.0)
hydration_factor(beverage) ==
    CASE beverage = "Milk" -> DLit(99, 100)
      [] beverage = "Tea" -> DLit(98, 100)
      [] beverage = "Coffee" -> DLit(90, 100)
      [] beverage = "Juice" -> DLit(95, 100)
      [] beverage = "Soda" -> DLit(90, 100)
      [] beverage = "Alcohol" -> DLit(80, 100)
      [] OTHER -> DFromInt(1)

\* log_beverage_advanced: the row it logs (Time left out).
water_entry(date, beverage, volume) ==
    [Date |-> date, Beverage |-> beverage, Volume_ml |-> volume,
     Effective_Hydration_ml |-> DMul(DFromInt(volume), hydration_factor(beverage))]

\* "Add to Log": the row it logs (Time, Carbs and Fats left out); qty is in
\* tenths of a serving.
food_entry(date, sel, meal_type, qty) ==
    [Date |-> date, Dish |-> sel.Dish_Name, Meal_Type |-> meal_type, Quantity |-> qty,
     Calories |-> DMul(DFromInt(sel.Calories_per_Serving), DLit(qty, 10)),
     Protein |-> DMul(DFromInt(sel.Protein_per_Serving), DLit(qty, 10))]

\* "Log Workout": the row it logs (Time left out).
exercise_entry(date, act, met, weight, mins) ==
    [Date |-> date, Activity |-> act, Duration |-> mins,
     Calories_Burnt |-> DMul(DMul(met, DFromInt(weight)), DDivInt(DFromInt(mins), 60))]

\* calculate_streak: the while loop.
RECURSIVE streak_from(_, _)
streak_from(valid_dates, check_date) ==
    IF check_date \in valid_dates THEN 1 + streak_from(valid_dates, check_date - 1) ELSE 0

\* calculate_streak that starts at today only.
calculate_streak_today_only(food, now) ==
    IF food = None \/ food.rows = << >> THEN 0
    ELSE streak_from({food.rows[i].Date : i \in DOMAIN food.rows} \ {NaT}, now)

\* calculate_streak(df_food), with datetime.now().date() = now
calculate_streak(food, now) ==
    IF food = None \/ food.rows = << >> THEN 0
    ELSE LET valid_dates == {food.rows[i].Date : i \in DOMAIN food.rows} \ {NaT}
         IN  IF valid_dates = {} THEN 0
             ELSE IF now \notin valid_dates
             THEN (IF now - 1 \notin valid_dates THEN 0
                   ELSE streak_from(valid_dates, now - 1))
             ELSE streak_from(valid_dates, now)

\* day[column].sum()
RECURSIVE column_sum(_, _)
column_sum(rows, column) ==
    IF rows = << >> THEN DZero
    ELSE DAdd(column_sum(SubSeq(rows, 1, Len(rows) - 1), column), rows[Len(rows)][column])

\* df[df["Date"] == today]
day_rows(frame, now) == SelectSeq(frame.rows, LAMBDA row : row.Date = now)

\* get_daily_stats that sums the whole log.
get_daily_stats_all_days(food_file, exercise_file, now) ==
    [eaten |-> column_sum(food_file.rows, "Calories"),
     protein |-> column_sum(food_file.rows, "Protein"),
     burnt |-> column_sum(exercise_file.rows, "Calories_Burnt")]

\* get_daily_stats(), on the two log files, with today = now
get_daily_stats(food_file, exercise_file, now) ==
    [eaten |-> IF load_data_safe(food_file) # None
               THEN column_sum(day_rows(load_data_safe(food_file), now), "Calories")
               ELSE DZero,
     protein |-> IF load_data_safe(food_file) # None
                 THEN column_sum(day_rows(load_data_safe(food_file), now), "Protein")
                 ELSE DZero,
     burnt |-> IF load_data_safe(exercise_file) # None
               THEN column_sum(day_rows(load_data_safe(exercise_file), now), "Calories_Burnt")
               ELSE DZero]

\* DataFrame.columns of a frame with rows
columns(rows) == DOMAIN rows[1]

\* pd.concat([a, b], ignore_index=True): a column one frame lacks is NaN in
\* that frame's rows.
concat(a, b) ==
    [i \in 1..(Len(a) + Len(b)) |->
        [k \in columns(a) \cup columns(b) |->
            IF i <= Len(a)
            THEN (IF k \in columns(a) THEN a[i][k] ELSE "nan")
            ELSE (IF k \in columns(b) THEN b[i - Len(a)][k] ELSE "nan")]]

\* The lambda of load_databases.
diet_of(name) ==
    IF \E k \in {<<"c", "h", "i", "c", "k", "e", "n">>, <<"e", "g", "g">>,
                 <<"f", "i", "s", "h">>, <<"m", "u", "t", "t", "o", "n">>} :
           Contains(str_lower(Spelling(name)), k)
    THEN "Non-Veg" ELSE "Veg"

\* "Ensure Diet column exists"
ensure_diet(food) ==
    IF food # None /\ "Diet" \notin columns(food.rows)
    THEN DataFrame([i \in DOMAIN food.rows |->
            [k \in columns(food.rows) \cup {"Diet"} |->
                IF k = "Diet" THEN diet_of(food.rows[i].Dish_Name) ELSE food.rows[i][k]]])
    ELSE food

\* The custom foods put ahead of the base catalog.
merge_custom(base, custom) ==
    IF base # None /\ custom # None THEN DataFrame(concat(custom.rows, base.rows))
    ELSE IF custom # None THEN custom
    ELSE base

\* load_databases(): the df_food it returns.
load_databases(food_file, custom_file) ==
    ensure_diet(merge_custom(load_data_safe(food_file), load_data_safe(custom_file)))

(***************************************************************************)
(* 3. Profile / target calculator                                          *)
(***************************************************************************)

\* activity.split()[0]: a label is the sequence of its words.
FirstWord(activity) == activity[1]

\* The literals of act_map, as the doubles Python reads them as.
act_map == [Sedentary |-> DLit(12, 10), Lightly |-> DLit(1375, 1000),
            Moderately |-> DLit(155, 100), Very |-> DLit(1725, 1000),
            Super |-> DLit(19, 10)]

\* act_map.get(word, 1.2)
act_map_get(word) == IF word \in DOMAIN act_map THEN act_map[word] ELSE DLit(12, 10)

bmr_same_offset(age, gender, height, weight) ==
    DAdd(DAdd(DAdd(DFromInt(10 * weight), DMul(DLit(625, 100), DFromInt(height))),
              DNeg(DFromInt(5 * age))),
         DFromInt(5))

bmr_of(age, gender, height, weight) ==
    LET base == DAdd(DAdd(DFromInt(10 * weight), DMul(DLit(625, 100), DFromInt(height))),
                     DNeg(DFromInt(5 * age)))
    IN  IF gender = "Male" THEN DAdd(base, DFromInt(5))
        ELSE DAdd(base, DNeg(DFromInt(161)))

tdee_of(age, gender, height, weight, activity) ==
    DMul(bmr_of(age, gender, height, weight), act_map_get(FirstWord(activity)))

\* target, macros = ...
goal_adjust(tdee, goal) ==
    CASE goal = "Weight Loss" -> [target |-> DAdd(tdee, DNeg(DFromInt(500))), macros |-> <<40, 40, 20>>]
      [] goal = "Weight Gain" -> [target |-> DAdd(tdee, DFromInt(500)), macros |-> <<50, 25, 25>>]
      [] goal = "Muscle Gain" -> [target |-> DAdd(tdee, DFromInt(250)), macros |-> <<45, 35, 20>>]
      [] OTHER                -> [target |-> tdee, macros |-> <<50, 20, 30>>]

rec_prot_first_entry(target, macros) ==
    DTrunc(DDivInt(DMul(target, DLit(macros[1], 100)), 4))

\* int((target * (macros[1] / 100)) / 4); Python indexes from 0, so macros[1]
\* is the second entry.
rec_prot_of(target, macros) ==
    DTrunc(DDivInt(DMul(target, DLit(macros[2], 100)), 4))

\* int(target)
calories_of(target) == DTrunc(target)

\* The part of the Targets record save_profile computes.
targets_of(age, gender, height, weight, activity, goal) ==
    CHOOSE targets \in
        {[Calories |-> calories_of(adj.target),
          Protein |-> rec_prot_of(adj.target, adj.macros),
          Macros_Split |-> adj.macros] :
            adj \in {goal_adjust(tdee_of(age, gender, height, weight, activity), goal)}} : TRUE

\* What the setup form offers (age 10..100, weight 30..200, height 100..250).
Names == {"", "Asha"}
Genders == {"Male", "Female"}
Ages == {25, 72}
Weights == {30, 70}
Heights == {102, 170}
Activities == {<<"Sedentary", "(Office)">>, <<"Lightly", "Active">>, <<"Moderately", "Active">>,
               <<"Very", "Active">>, <<"Super", "Active">>}
Goals == {"Weight Loss", "Weight Gain", "Muscle Gain", "Maintain"}
WaterGoals == {2500}

\* What the Settings page is given (its number inputs have no range).
NewWeights == {30, 75}
NewHeights == {102}
NewAges == {72}

make_profile(name, age, gender, height, weight, activity, goal, water_goal) ==
    CHOOSE profile \in
        {[Name |-> name, Age |-> age, Gender |-> gender, Height |-> height,
          Start_Weight |-> weight, Current_Weight |-> weight,
          Activity |-> activity, Goal |-> goal,
          Targets |-> [Calories |-> t.Calories, Protein |-> t.Protein,
                       Water |-> water_goal, Macros_Split |-> t.Macros_Split]] :
            t \in {targets_of(age, gender, height, weight, activity, goal)}} : TRUE

\* initialize_databases(), run at the top of every script run: the part that
\* concerns the weight log.
init_weight_log(f) == IF f.exists THEN f ELSE HeaderOnly

\* load_profile(): the stored profile, old profiles fixed up and written back.
load_profile(file) ==
    IF file = None THEN None
    ELSE IF "Start_Weight" \notin DOMAIN file
    THEN [k \in DOMAIN file \cup {"Start_Weight", "Current_Weight"} |->
             IF k \in {"Start_Weight", "Current_Weight"}
             THEN (IF "Weight" \in DOMAIN file THEN file.Weight ELSE 70)
             ELSE file[k]]
    ELSE file

\* if "user" not in st.session_state: st.session_state["user"] = load_profile()
session_user == IF user = Unset THEN load_profile(profile_file) ELSE user

\* save_profile, on the weight log as the script run found it.
save_profile(wl, name, age, gender, height, weight, activity, goal, water_goal) ==
    \E profile \in {make_profile(name, age, gender, height, weight, activity, goal, water_goal)} :
        /\ profile_file' = profile
        /\ weight_log' = IF ~wl.exists \/ SizeZero(wl)
                         THEN [exists |-> TRUE, header |-> TRUE,
                               rows |-> <<[Date |-> today, Weight |-> weight]>>]
                         ELSE wl
        /\ user' = profile
        /\ UNCHANGED <<today, plan, plan_call, chatbot>>

\* initialize_databases(): the three logs a handler does not write to.
InitLogs ==
    /\ water_log' = created(water_log, << >>)
    /\ food_log' = created(food_log, << >>)
    /\ exercise_log' = created(exercise_log, << >>)

\* initialize_databases(): the three catalogs.
InitCatalogs ==
    /\ symptom_db' = created(symptom_db, default_symptom_db)
    /\ food_db' = created(food_db, default_food_db)
    /\ exercise_db' = created(exercise_db, default_exercise_db)

\* The top of a script run that saves no profile: initialize_databases() on
\* the weight log, and the session's user.
StartRun ==
    /\ user' = session_user
    /\ profile_file' = IF user = Unset /\ profile_file # None
                       THEN load_profile(profile_file) ELSE profile_file
    /\ weight_log' = init_weight_log(weight_log)

\* The sidebar's net / target divides the integer 0 by the integer 0 when the
\* target is 0 and neither log has rows: ZeroDivisionError ends the script run
\* before any page is drawn.  (With rows in a log the sums are numpy floats and
\* the division does not raise.)
sidebar_raises(profile, food_file, exercise_file) ==
    /\ profile.Targets.Calories = 0
    /\ load_data_safe(food_file) = None
    /\ load_data_safe(exercise_file) = None

\* The Dashboard page: the streak and the weight metric.
dashboard_of(profile, food_file, now) ==
    [streak |-> calculate_streak(load_data_safe(food_file), now),
     cw |-> profile.Current_Weight,
     delta |-> profile.Current_Weight - profile.Start_Weight]

\* The main view of a script run for a stored profile: load_databases(), the
\* sidebar's get_daily_stats() and, on the Dashboard page, its metrics.
MainView(profile, on_dashboard) ==
    /\ df_food' = load_databases(created(food_db, default_food_db), custom_food)
    /\ stats' = get_daily_stats(food_log, exercise_log, today)
    /\ dashboard' = IF on_dashboard /\ ~sidebar_raises(profile, food_log, exercise_log)
                    THEN dashboard_of(profile, food_log, today)
                    ELSE dashboard

\* A page of the main view can be reached and its buttons pressed.
PageShown ==
    /\ session_user # None
    /\ ~sidebar_raises(session_user, food_log, exercise_log)

\* A script run that handles no button: first page load, navigation to the
\* Dashboard.
ScriptRun ==
    /\ StartRun
    /\ InitLogs
    /\ InitCatalogs
    /\ IF session_user = None
       THEN UNCHANGED <<df_food, views>>
       ELSE MainView(session_user, TRUE)
    /\ UNCHANGED <<today, plan, plan_call, chatbot, custom_food>>

\* The browser session ends; the next script run starts without session state.
NewSession ==
    /\ user # Unset
    /\ user' = Unset
    /\ UNCHANGED <<profile_file, weight_log, today, planner, chatbot, logs, custom_food,
                   catalogs, views>>

\* "Start My Journey" on the setup form; save_profile ends in st.rerun(), which
\* draws the Dashboard for the new profile.
SetupForm ==
    /\ session_user = None
    /\ \E name \in Names, age \in Ages, gender \in Genders, height \in Heights,
          weight \in Weights, act \in Activities, goal \in Goals, w_goal \in WaterGoals :
          IF name # ""
          THEN /\ save_profile(init_weight_log(weight_log), name, age, gender, height, weight,
                               act, goal, w_goal)
               /\ MainView(profile_file', TRUE)
          ELSE /\ user' = None
               /\ weight_log' = init_weight_log(weight_log)
               /\ UNCHANGED <<profile_file, today, planner, chatbot, views>>
    /\ InitLogs
    /\ InitCatalogs
    /\ UNCHANGED custom_food

\* "Save Profile Changes" on the Settings page; save_profile ends in
\* st.rerun(), which draws the Settings page again.
SettingsSave ==
    /\ PageShown
    /\ \E new_w \in NewWeights, new_h \in NewHeights, new_age \in NewAges,
          new_act \in Activities, new_goal \in Goals :
          save_profile(init_weight_log(weight_log), session_user.Name, new_age,
                       session_user.Gender, new_h, new_w, new_act, new_goal,
                       session_user.Targets.Water)
    /\ MainView(session_user, FALSE)
    /\ InitLogs
    /\ InitCatalogs
    /\ UNCHANGED custom_food

\* What the Food Log page offers: the date input, the meal type, the quantity
\* in tenths of a serving (0.5 to 10.0).
MealTypes == {"Lunch"}
Quantities == {15}
\* The longest log, the most custom foods and the last day.
MaxLog == 2
MaxCustom == 1
LastDay == 2

\* sel = df_food[df_food["Dish Name"] == dish].iloc[0]
first_named(rows, dish) == rows[CHOOSE i \in DOMAIN rows :
                                   /\ rows[i].Dish_Name = dish
                                   /\ \A j \in 1..(i - 1) : rows[j].Dish_Name # dish]

\* What is typed into "Search Database".
Searches == {<<"P", "a", "n">>, <<"f", "r", "y">>}

\* df_food[df_food["Dish Name"].str.lower().str.contains(search.lower())]
search_matches(rows, search) ==
    SelectSeq(rows, LAMBDA row : Contains(str_lower(Spelling(row.Dish_Name)), str_lower(search)))

\* "Add to Log" on the Food Log page: the sidebar has read the logs before the
\* row is written.
LogMeal ==
    /\ PageShown
    /\ Len(food_log.rows) < MaxLog
    /\ \E catalog \in {load_databases(created(food_db, default_food_db), custom_food)} :
          /\ catalog # None
          /\ \E search \in Searches :
                \E matches \in {search_matches(catalog.rows, search)} :
                   \E i \in DOMAIN matches, log_date \in {today - 1, today},
                      meal_type \in MealTypes, qty \in Quantities :
                      food_log' = log_data(created(food_log, << >>),
                                           food_entry(log_date,
                                                      first_named(catalog.rows,
                                                                  matches[i].Dish_Name),
                                                      meal_type, qty))
    /\ StartRun
    /\ water_log' = created(water_log, << >>)
    /\ exercise_log' = created(exercise_log, << >>)
    /\ InitCatalogs
    /\ MainView(session_user, FALSE)
    /\ UNCHANGED <<today, plan, plan_call, chatbot, custom_food>>

\* What the "Add Custom Food" form is given.
CustomFoods ==
    {[Dish_Name |-> "Protein Bar", Calories_per_Serving |-> 151,
      Protein_per_Serving |-> 10, Diet |-> "Veg"]}

\* "Save Food" on the Food Log page
SaveFood ==
    /\ PageShown
    /\ Len(custom_food.rows) < MaxCustom
    /\ \E row \in CustomFoods :
          custom_food' = IF custom_food.exists
                         THEN [custom_food EXCEPT !.rows = Append(@, row)]
                         ELSE [exists |-> TRUE, header |-> TRUE, rows |-> <<row>>]
    /\ StartRun
    /\ InitLogs
    /\ InitCatalogs
    /\ MainView(session_user, FALSE)
    /\ UNCHANGED <<today, plan, plan_call, chatbot>>

\* "Log Drink" on the Hydration page
LogDrink ==
    /\ PageShown
    /\ Len(water_log.rows) < MaxLog
    /\ \E h_bev \in {"Tea"}, h_vol \in {250} :
          water_log' = log_data(created(water_log, << >>), water_entry(today, h_bev, h_vol))
    /\ StartRun
    /\ food_log' = created(food_log, << >>)
    /\ exercise_log' = created(exercise_log, << >>)
    /\ InitCatalogs
    /\ MainView(session_user, FALSE)
    /\ UNCHANGED <<today, plan, plan_call, chatbot, custom_food>>

\* "Log Workout" on the Fitness page
LogWorkout ==
    /\ PageShown
    /\ Len(exercise_log.rows) < MaxLog
    /\ \E df_ex \in {load_data_safe(created(exercise_db, default_exercise_db))} :
          /\ df_ex # None
          /\ \E mins \in {30} :
                exercise_log' = log_data(created(exercise_log, << >>),
                                         exercise_entry(today, df_ex.rows[1].Description,
                                                        df_ex.rows[1].MET_Value,
                                                        session_user.Current_Weight, mins))
    /\ StartRun
    /\ food_log' = created(food_log, << >>)
    /\ water_log' = created(water_log, << >>)
    /\ InitCatalogs
    /\ MainView(session_user, FALSE)
    /\ UNCHANGED <<today, plan, plan_call, chatbot, custom_food>>

\* "db" not in f, for the file FILES[key]
reset_removes(key) == ~Contains(FILES[key], <<"d", "b">>)

\* if "db" not in f and os.path.exists(f): os.remove(f)
after_reset(key, f) == IF reset_removes(key) THEN NoFile ELSE f

\* "Reset All Data" on the Settings page: the loop over FILES.values(), the
\* session's user deleted, and st.rerun(), whose script run calls
\* initialize_databases() and load_profile() again.
ResetAllData ==
    /\ PageShown
    /\ profile_file' = IF reset_removes("profile") THEN None ELSE load_profile(profile_file)
    /\ user' = IF reset_removes("profile") THEN None ELSE load_profile(profile_file)
    /\ weight_log' = init_weight_log(after_reset("weight_log", init_weight_log(weight_log)))
    /\ food_log' = created(after_reset("food_log", created(food_log, << >>)), << >>)
    /\ exercise_log' = created(after_reset("exercise_log", created(exercise_log, << >>)), << >>)
    /\ water_log' = created(after_reset("water_log", created(water_log, << >>)), << >>)
    /\ custom_food' = after_reset("custom_food", custom_food)
    /\ food_db' = created(after_reset("food_db", created(food_db, default_food_db)),
                          default_food_db)
    /\ exercise_db' = created(after_reset("exercise_db",
                                          created(exercise_db, default_exercise_db)),
                              default_exercise_db)
    /\ symptom_db' = created(after_reset("symptom_db", created(symptom_db, default_symptom_db)),
                             default_symptom_db)
    /\ MainView(session_user, FALSE)
    /\ UNCHANGED <<today, plan, plan_call, chatbot>>

\* Midnight passes.
NextDay ==
    /\ today < LastDay
    /\ today' = today + 1
    /\ UNCHANGED <<user, profile_file, weight_log, planner, chatbot, logs, custom_food,
                   catalogs, views>>

\* A fresh checkout: the food catalog of the repository beside the script, no
\* other file yet.
Init ==
    /\ user = Unset
    /\ profile_file = None
    /\ weight_log = NoFile
    /\ today = 1
    /\ df_food = DataFrame(<<Paneer, Chicken>>)
    /\ plan = Unset
    /\ plan_call = None
    /\ df = << >>
    /\ running = FALSE
    /\ reply = None
    /\ symptom_csv = NoFile
    /\ error = ""
    /\ food_log = NoFile
    /\ exercise_log = NoFile
    /\ water_log = NoFile
    /\ custom_food = NoFile
    /\ food_db = [exists |-> TRUE, header |-> TRUE, rows |-> <<Paneer, Chicken>>]
    /\ exercise_db = NoFile
    /\ symptom_db = NoFile
    /\ stats = None
    /\ dashboard = None

Next == ScriptRun \/ NewSession \/ SetupForm \/ SettingsSave \/ ResetAllData

Spec == Init /\ [][Next]_vars

HasProfile == user \notin {Unset, None}

(***************************************************************************)
(* save_profile called directly, on arguments beyond what the forms offer  *)
(***************************************************************************)

CallGenders == Genders \cup {"Other"}
CallAges == {11, 25, 26, 100}
CallWeights == {30, 70, 100}
CallHeights == {100, 108, 170, 200}
CallActivities == Activities \cup {<<"Extremely", "Active">>}
CallGoals == Goals \cup {"Recomposition"}

CallSaveProfile ==
    /\ user = Unset
    /\ \E age \in CallAges, gender \in CallGenders, height \in CallHeights,
          weight \in CallWeights, act \in CallActivities, goal \in CallGoals :
          save_profile(weight_log, "Asha", age, gender, height, weight, act, goal, 2500)
    /\ UNCHANGED <<df_food, logs, custom_food, catalogs, views>>

NextTargets == CallSaveProfile

SpecTargets == Init /\ [][NextTargets]_vars

(***************************************************************************)
(* Claims on the target calculator, in exact arithmetic                    *)
(***************************************************************************)

TruncDiv(n, d) == Sign(n) * (Abs(n) \div d)

\* The specified multiplier, times 1000.
SpecMultiplier1000(word) ==
    CASE word = "Sedentary"  -> 1200
      [] word = "Lightly"    -> 1375
      [] word = "Moderately" -> 1550
      [] word = "Very"       -> 1725
      [] word = "Super"      -> 1900
      [] OTHER               -> 1200

SpecOffset(goal) ==
    CASE goal = "Weight Loss" -> -500
      [] goal = "Weight Gain" -> 500
      [] goal = "Muscle Gain" -> 250
      [] OTHER                -> 0

\* 4000 * (BMR * multiplier + offset) for the inputs a profile records
SpecTarget4000(p) ==
    (40 * p.Current_Weight + 25 * p.Height - 20 * p.Age
        + (IF p.Gender = "Male" THEN 20 ELSE -644))
      * SpecMultiplier1000(p.Activity[1])
    + 4000 * SpecOffset(p.Goal)

\* The profile of the claim's example: Male, 25, 170 cm, 70 kg, Moderately
\* Active, Weight Loss.
IsExampleProfile ==
    /\ HasProfile
    /\ user.Gender = "Male" /\ user.Age = 25 /\ user.Height = 170
    /\ user.Current_Weight = 70 /\ user.Activity[1] = "Moderately"
    /\ user.Goal = "Weight Loss"

\* C1 as stated: the stored Targets.Calories is the integer part of
\* BMR * multiplier + offset, and the example profile gets 2093.
C1_Original_ExampleGives2093 ==
    /\ HasProfile => user.Targets.Calories = TruncDiv(SpecTarget4000(user), 4000)
    /\ IsExampleProfile => user.Targets.Calories = 2093

\* C1: the stored Targets.Calories is the integer part of
\* BMR * multiplier + offset, with BMR, multiplier and offset as specified;
\* the example profile has BMR 1642.5 and gets int(1642.5 * 1.55 - 500) = 2045.
C1_CaloriesAreIntegerPartOfTarget ==
    /\ HasProfile => user.Targets.Calories = TruncDiv(SpecTarget4000(user), 4000)
    /\ IsExampleProfile => user.Targets.Calories = 2045

\* The example profile has been saved.
C1_Witness ==
    /\ IsExampleProfile
    /\ user.Targets.Calories = 2045
    /\ profile_file = user

\* The protein percentage the claim names: the first entry of the split.
ClaimedProteinPercent(goal) ==
    CASE goal = "Weight Loss" -> 40
      [] goal = "Weight Gain" -> 50
      [] goal = "Muscle Gain" -> 45
      [] OTHER                -> 50

\* The percentage the code uses: the second entry of the split.
UsedPercent(goal) ==
    CASE goal = "Weight Loss" -> 40
      [] goal = "Weight Gain" -> 25
      [] goal = "Muscle Gain" -> 35
      [] OTHER                -> 20

\* C2 as claimed: Protein = round(Calories * proteinPercent / 100 / 4), that
\* is, within one half of Calories * proteinPercent / 400.
C2_Original_ProteinIsRoundedShare ==
    HasProfile =>
        Abs(400 * user.Targets.Protein
              - user.Targets.Calories * ClaimedProteinPercent(user.Goal)) <= 200

\* C2, amended: Protein is the integer part of target * p / 400, taken on
\* the target before it is cut to an integer, p the second entry of the
\* goal's split (40, 25, 35, 20); where that value is a whole number the
\* double product may fall just short of it, and Protein is then one less.
C2_ProteinIsTruncatedSecondEntryShare ==
    HasProfile =>
        LET x == SpecTarget4000(user) * UsedPercent(user.Goal)
            t == TruncDiv(x, 1600000)
        IN  \/ user.Targets.Protein = t
            \/ /\ x % 1600000 = 0
               /\ t # 0
               /\ user.Targets.Protein = t - Sign(t)

\* A goal where the two entries differ, and an input where the double
\* product falls short: Male, 26, 200 cm, 100 kg, Sedentary, Muscle Gain has
\* target 2800 and 2800 * 35 / 400 = 245, stored as 244.
C2_Witness ==
    /\ HasProfile
    /\ user.Goal = "Muscle Gain" /\ user.Age = 26 /\ user.Height = 200
    /\ user.Current_Weight = 100 /\ user.Gender = "Male"
    /\ user.Activity[1] = "Sedentary"
    /\ user.Targets.Calories = 2800
    /\ user.Targets.Protein = 244

\* C3: every stored profile has a positive calorie target.
C3_CalorieTargetPositive ==
    HasProfile => user.Targets.Calories > 0

(***************************************************************************)
(* 4. The meal planner: generate_meal_plan and the Meal Planner page.      *)
(***************************************************************************)

\* if diet_pref == "Vegetarian": df_food = df_food[df_food["Diet"] == "Veg"]
diet_filter_off(food, diet_pref) == food

diet_filter(food, diet_pref) ==
    IF diet_pref = "Vegetarian"
    THEN SelectSeq(food, LAMBDA row : row.Diet = "Veg")
    ELSE food

\* sort_values by protein (descending) for Muscle Gain, by calories
\* (ascending) for Weight Loss.
goal_sort(food, goal) ==
    CASE goal = "Muscle Gain" ->
            SortSeq(food, LAMBDA a, b : a.Protein_per_Serving > b.Protein_per_Serving)
      [] goal = "Weight Loss" ->
            SortSeq(food, LAMBDA a, b : a.Calories_per_Serving < b.Calories_per_Serving)
      [] OTHER -> food

\* budgets = {"Breakfast": 0.25, "Lunch": 0.35, "Dinner": 0.30, "Snack": 0.10}
budgets ==
    << [Type |-> "Breakfast", ratio |-> DLit(25, 100)],
       [Type |-> "Lunch", ratio |-> DLit(35, 100)],
       [Type |-> "Dinner", ratio |-> DLit(30, 100)],
       [Type |-> "Snack", ratio |-> DLit(10, 100)] >>

\* budget = target_cals * ratio
budget_of(target_cals, ratio) == DMul(DFromInt(target_cals), ratio)

\* (Calories >= budget - 150) & (Calories <= budget + 150)
in_window(cal, budget) ==
    /\ DCmp(DFromInt(cal), DAdd(budget, DFromInt(-150))) >= 0
    /\ DCmp(DFromInt(cal), DAdd(budget, DFromInt(150))) <= 0

\* candidates, and "if candidates.empty: candidates = df_food"
candidates_of(food, budget) ==
    LET candidates == SelectSeq(food,
                         LAMBDA row : in_window(row.Calories_per_Serving, budget))
    IN  IF candidates = <<>> THEN food ELSE candidates

\* round(budget / cal, 1), in tenths, without the clamp.
qty_unclamped(budget, cal) ==
    IF cal = 0
    THEN IF budget.sgn = 1 /\ budget.m # <<>> THEN 30 ELSE 5
    ELSE DRint(DMul(DDivInt(budget, cal), DFromInt(10)))

\* qty = round(budget / cal, 1); qty = max(0.5, min(qty, 3.0)), in tenths.
\* cal is a numpy integer, so the quotient is a numpy double: it is rounded
\* as rint(x * 10) / 10, and a zero cal gives inf (clamped to 3.0) or nan
\* (which max() replaces by 0.5) instead of raising.
qty_of(budget, cal) ==
    IF cal = 0
    THEN IF budget.sgn = 1 /\ budget.m # <<>> THEN 30 ELSE 5
    ELSE Max(5, Min(DRint(DMul(DDivInt(budget, cal), DFromInt(10))), 30))

\* int(cal * qty), rounding up instead of truncating.
cals_ceil(cal, qty) == (cal * qty + 9) \div 10

\* int(cal * qty), the product taken in doubles.
cals_of(cal, qty) == DTrunc(DMul(DFromInt(cal), DLit(qty, 10)))

\* One entry of daily_meals; Qty is held in tenths.
meal_of(type, selected, budget) ==
    CHOOSE meal \in
        {[Type |-> type, Dish |-> selected.Dish_Name, Qty |-> qty,
          Unit |-> selected.Serving_Unit,
          Cals |-> cals_of(selected.Calories_per_Serving, qty),
          Diet |-> selected.Diet] :
            qty \in {qty_of(budget, selected.Calories_per_Serving)}} : TRUE

\* total_day, leaving the snack out.
total_without_snack(meals) == meals[1].Cals + meals[2].Cals + meals[3].Cals

\* total_day += final_cals, over the four meals.
total_day(meals) == meals[1].Cals + meals[2].Cals + meals[3].Cals + meals[4].Cals

\* f"Day {day}" for day in range(1, days + 1)
day_key(day) == <<"Day", day>>

\* What one pass of the inner loop can append for the slot i:
\* candidates.sample(1) draws any row of the candidates, and raises on an
\* empty frame.
meal_choices(food, target_cals, i) ==
    UNION {{meal_of(budgets[i].Type, selected, budget) :
                selected \in {candidates[j] : j \in 1..Len(candidates)}} :
              <<budget, candidates>> \in
                  {<<b, candidates_of(food, b)>> :
                      b \in {budget_of(target_cals, budgets[i].ratio)}}}

\* What one pass of the day loop can produce.
day_choices(food, target_cals) ==
    {<<b, l, d, s>> : b \in meal_choices(food, target_cals, 1),
                      l \in meal_choices(food, target_cals, 2),
                      d \in meal_choices(food, target_cals, 3),
                      s \in meal_choices(food, target_cals, 4)}

\* The plans the day loop can build from the filtered and sorted catalog.
plans_of(pool, choices, days) ==
    IF choices = {}
    THEN {[outcome |-> "ValueError", pool |-> DataFrame(pool), plan |-> << >>]}
    ELSE {[outcome |-> "returned", pool |-> DataFrame(pool),
           plan |-> [day \in 1..days |->
                       [Key |-> day_key(day), Meals |-> f[day],
                        Total |-> total_day(f[day])]]] :
             f \in [1..days -> choices]}

\* generate_meal_plan: the outcomes it can have. A None catalog fails at the
\* first use of df_food (subscripting or sort_values); an empty filtered
\* catalog fails in candidates.sample(1) of the first meal.
generate_meal_plan(food, target_cals, goal, diet_pref, days) ==
    IF food = None
    THEN {[outcome |-> IF diet_pref # "Vegetarian" /\ goal \in {"Muscle Gain", "Weight Loss"}
                       THEN "AttributeError" ELSE "TypeError",
           pool |-> None, plan |-> << >>]}
    ELSE UNION {plans_of(pool, choices, days) :
                   <<pool, choices>> \in
                       {<<p, day_choices(p, target_cals)>> :
                           p \in {goal_sort(diet_filter(food.rows, diet_pref), goal)}}}

\* The slider offers 1..7 days.
MaxDays == 2
Prefs == {"Vegetarian", "Non-Vegetarian"}

\* "Generate Plan" on the Meal Planner page: the result is stored only if the
\* call returns; an exception ends the script run.
GeneratePlan ==
    /\ HasProfile
    /\ \E days \in 1..MaxDays, pref \in Prefs :
         \E r \in generate_meal_plan(df_food, user.Targets.Calories, user.Goal, pref, days) :
            /\ plan' = IF r.outcome = "returned" THEN [days |-> r.plan] ELSE plan
            /\ plan_call' = [df_food |-> df_food, target_cals |-> user.Targets.Calories,
                             goal |-> user.Goal, diet_pref |-> pref, days |-> days,
                             pool |-> r.pool, outcome |-> r.outcome]
    /\ UNCHANGED <<user, profile_file, weight_log, today, df_food, chatbot, logs,
                   custom_food, catalogs, views>>

\* Profiles the setup form saves, with the catalogs on disk beside them.
planner_profile(age, gender, height, weight, activity, goal) ==
    make_profile("Asha", age, gender, height, weight, activity, goal, 2500)

Maintain2000 == planner_profile(30, "Male", 160, 60, <<"Lightly", "Active">>, "Maintain")
Loss2045 == planner_profile(25, "Male", 170, 70, <<"Moderately", "Active">>, "Weight Loss")
Maintain499 == planner_profile(72, "Female", 102, 30, <<"Sedentary", "(Office)">>, "Maintain")
Loss0 == planner_profile(72, "Female", 102, 30, <<"Sedentary", "(Office)">>, "Weight Loss")
Gain5140 == planner_profile(25, "Male", 194, 135, <<"Super", "Active">>, "Weight Gain")
Muscle2800 == planner_profile(26, "Male", 200, 100, <<"Sedentary", "(Office)">>, "Muscle Gain")

PlannerSetups ==
    { <<Maintain2000, DataFrame(<<Paneer, Chicken>>)>>,
      <<Loss2045, DataFrame(<<Chicken, Idli>>)>>,
      <<Maintain499, DataFrame(<<ProteinBar>>)>>,
      <<Maintain2000, DataFrame(<<BlackCoffee>>)>>,
      <<Loss0, DataFrame(<<BlackCoffee>>)>>,
      <<Gain5140, DataFrame(<<FamilyPizza, Thali>>)>>,
      <<Muscle2800, DataFrame(<<Idli, Chicken>>)>>,
      <<Maintain2000, DataFrame(<<Chicken>>)>>,
      <<Maintain2000, None>>,
      <<Loss2045, None>> }

InitPlanner ==
    /\ \E setup \in PlannerSetups :
          /\ user = setup[1]
          /\ profile_file = setup[1]
          /\ df_food = setup[2]
    /\ weight_log = [exists |-> TRUE, header |-> TRUE,
                     rows |-> <<[Date |-> 1, Weight |-> user.Start_Weight]>>]
    /\ today = 1
    /\ plan = Unset
    /\ plan_call = None
    /\ df = << >>
    /\ running = FALSE
    /\ reply = None
    /\ symptom_csv = NoFile
    /\ error = ""
    /\ food_log = HeaderOnly
    /\ exercise_log = HeaderOnly
    /\ water_log = HeaderOnly
    /\ custom_food = NoFile
    /\ food_db = IF df_food = None THEN HeaderOnly
                 ELSE [exists |-> TRUE, header |-> TRUE, rows |-> df_food.rows]
    /\ exercise_db = created(NoFile, default_exercise_db)
    /\ symptom_db = created(NoFile, default_symptom_db)
    /\ stats = None
    /\ dashboard = None

NextPlanner == GeneratePlan

SpecPlanner == InitPlanner /\ [][NextPlanner]_vars

(***************************************************************************)
(* Claims about the meal planner.                                          *)
(***************************************************************************)

\* The last call of generate_meal_plan returned, and its plan is the stored one.
Returned == plan_call # None /\ plan_call.outcome = "returned"

\* The meals of the stored plan, as <<day, slot>> positions.
MealSlots == {<<d, i>> \in (1..Len(plan.days)) \X (1..4) : TRUE}
MealAt(pos) == plan.days[pos[1]].Meals[pos[2]]

\* The rows of the last call's filtered catalog that carry a meal's dish name.
RowsOf(meal) ==
    {j \in 1..Len(plan_call.pool.rows) : plan_call.pool.rows[j].Dish_Name = meal.Dish}

\* The shares of the four slots, in percent.
SharePercent == <<25, 35, 30, 10>>

\* cal is within 150 kcal of target * share, in exact arithmetic.
WithinWindow(cal, target, i) == Abs(100 * cal - target * SharePercent[i]) <= 15000

\* C5: every selected dish is a row of the diet-filtered catalog, and it is
\* within 150 kcal of the slot budget whenever some row of the filtered
\* catalog is.
C5_SelectedDishWithinWindow ==
    Returned =>
        \A pos \in MealSlots :
            LET rows == plan_call.pool.rows
                windowed == {j \in 1..Len(rows) :
                                WithinWindow(rows[j].Calories_per_Serving,
                                             plan_call.target_cals, pos[2])}
            IN  /\ RowsOf(MealAt(pos)) # {}
                /\ (windowed # {} => RowsOf(MealAt(pos)) \cap windowed # {})

\* C6: a Vegetarian plan holds only Veg dishes, and a Non-Vegetarian call
\* selects from every row of the catalog.
C6_DietPreferenceRespected ==
    /\ (Returned /\ plan_call.diet_pref = "Vegetarian") =>
          \A pos \in MealSlots :
              /\ MealAt(pos).Diet = "Veg"
              /\ \A k \in 1..Len(plan_call.df_food.rows) :
                    plan_call.df_food.rows[k].Dish_Name = MealAt(pos).Dish
                        => plan_call.df_food.rows[k].Diet = "Veg"
    /\ plan_call # None /\ plan_call.diet_pref = "Non-Vegetarian" /\ plan_call.pool # None =>
          \A k \in 1..Len(plan_call.df_food.rows) :
              \E j \in 1..Len(plan_call.pool.rows) :
                  plan_call.pool.rows[j] = plan_call.df_food.rows[k]

\* A Vegetarian plan from a catalog that has a Non-Veg row, with the lunch
\* taken from the fallback (no row is within the lunch window).
C6_Witness ==
    /\ Returned /\ plan_call.diet_pref = "Vegetarian"
    /\ \E k \in 1..Len(plan_call.df_food.rows) : plan_call.df_food.rows[k].Diet = "Non-Veg"
    /\ \A j \in 1..Len(plan_call.pool.rows) :
          ~WithinWindow(plan_call.pool.rows[j].Calories_per_Serving, plan_call.target_cals, 2)

\* C7: Qty (in tenths) is in 5..30, and for a dish of cal > 0 it is
\* budget / cal rounded to one decimal (a tie going either way), then clamped.
C7_QtyRoundedAndClamped ==
    Returned =>
        \A pos \in MealSlots :
            LET meal == MealAt(pos)
                b == plan_call.target_cals * SharePercent[pos[2]]
            IN  /\ meal.Qty \in 5..30
                /\ \A j \in RowsOf(meal) :
                      LET c == plan_call.pool.rows[j].Calories_per_Serving
                      IN  c > 0 =>
                            /\ (meal.Qty > 5 => b >= 10 * c * meal.Qty - 5 * c)
                            /\ (meal.Qty < 30 => b <= 10 * c * meal.Qty + 5 * c)

\* One plan with a quantity strictly inside the range and one clamped down
\* from above 3.0.
C7_Witness ==
    /\ Returned
    /\ \E pos \in MealSlots : MealAt(pos).Qty \in 6..29
    /\ \E pos \in MealSlots : \E j \in RowsOf(MealAt(pos)) :
          /\ MealAt(pos).Qty = 30
          /\ plan_call.pool.rows[j].Calories_per_Serving > 0
          /\ 10 * plan_call.target_cals * SharePercent[pos[2]]
                > 3050 * plan_call.pool.rows[j].Calories_per_Serving

\* The four slot budgets of the last call, added as doubles in slot order.
BudgetSum ==
    LET b(i) == budget_of(plan_call.target_cals, budgets[i].ratio)
    IN  DAdd(DAdd(DAdd(b(1), b(2)), b(3)), b(4))

\* C8 as stated: Cals is the integer part of cal * Qty, lies between 0.5 cal
\* and 3 cal, and the four budgets sum to the target.
C8_Original_CalsWithinHalfToTriple ==
    Returned =>
        /\ \A pos \in MealSlots :
              \A j \in RowsOf(MealAt(pos)) :
                  LET c == plan_call.pool.rows[j].Calories_per_Serving
                      meal == MealAt(pos)
                  IN  /\ meal.Cals = (c * meal.Qty) \div 10
                      /\ 2 * meal.Cals >= c
                      /\ meal.Cals <= 3 * c
        /\ DCmp(BudgetSum, DFromInt(plan_call.target_cals)) = 0

\* C8: Cals is the integer part of cal * Qty, or one less when that product
\* is whole; it is above 0.5 cal - 1 and at most 3 cal; the four budgets sum
\* to the target up to rounding, and exactly for the target 2000.
C8_CalsTruncatedProduct ==
    Returned =>
        /\ \A pos \in MealSlots :
              \A j \in RowsOf(MealAt(pos)) :
                  LET c == plan_call.pool.rows[j].Calories_per_Serving
                      meal == MealAt(pos)
                  IN  /\ \/ meal.Cals = (c * meal.Qty) \div 10
                         \/ /\ (c * meal.Qty) % 10 = 0
                            /\ meal.Cals = (c * meal.Qty) \div 10 - 1
                      /\ 2 * meal.Cals > c - 2
                      /\ meal.Cals <= 3 * c
        /\ LET diff == DAdd(BudgetSum, DFromInt(-plan_call.target_cals))
           IN  /\ DCmp(diff, DLit(1, 1000)) < 0
               /\ DCmp(diff, DLit(-1, 1000)) > 0
               /\ (plan_call.target_cals = 2000 => diff = DZero)

\* A plan for the target 2000 with a meal below half a serving's calories
\* (151 kcal at Qty 0.5 is 75) or one short of a whole product (350 kcal at
\* Qty 1.4 is 489).
C8_Witness ==
    /\ Returned
    /\ \E pos \in MealSlots : \E j \in RowsOf(MealAt(pos)) :
          LET c == plan_call.pool.rows[j].Calories_per_Serving
          IN  \/ 2 * MealAt(pos).Cals < c
              \/ /\ plan_call.target_cals = 2000
                 /\ 10 * MealAt(pos).Cals < c * MealAt(pos).Qty - 9

\* The stored plan has n days keyed Day 1..n, each with the four meals in
\* slot order and the sum of their Cals as Total.
WellFormedPlan(n) ==
    /\ Len(plan.days) = n
    /\ \A d \in 1..Len(plan.days) :
          LET day == plan.days[d]
          IN  /\ day.Key = <<"Day", d>>
              /\ Len(day.Meals) = 4
              /\ \A i \in 1..4 : day.Meals[i].Type = budgets[i].Type
              /\ day.Total = day.Meals[1].Cals + day.Meals[2].Cals
                                + day.Meals[3].Cals + day.Meals[4].Cals

\* C9 as stated: a call on a non-empty catalog returns a well-formed plan.
C9_Original_NonEmptyCatalogGivesPlan ==
    plan_call # None /\ plan_call.df_food # None =>
        (Len(plan_call.df_food.rows) > 0 =>
            Returned /\ WellFormedPlan(plan_call.days))

\* C9: a call whose diet-filtered catalog is non-empty returns a plan of
\* exactly `days` day records Day 1..N, each of four meals in slot order with
\* Total the sum of their Cals.
C9_FilteredCatalogGivesPlan ==
    plan_call # None /\ plan_call.pool # None =>
        (Len(plan_call.pool.rows) > 0 =>
            Returned /\ WellFormedPlan(plan_call.days))

\* A plan of more than one day, from a catalog of more than one row.
C9_Witness ==
    /\ Returned
    /\ plan_call.days > 1
    /\ Len(plan_call.pool.rows) > 1
    /\ plan.days[2].Total > 0

\* C10: a call on a missing or empty catalog, or one the diet filter leaves
\* empty, ends in an explicit EmptyCatalog result.
C10_EmptyCatalogIsExplicit ==
    plan_call # None =>
        ((\/ plan_call.df_food = None
          \/ plan_call.pool = None
          \/ Len(plan_call.pool.rows) = 0)
            => plan_call.outcome = "EmptyCatalog")

(***************************************************************************)
(* 5. The console chatbot (src/chatbot.py). Strings are sequences of       *)
(*    one-character strings.                                               *)
(***************************************************************************)

Upper(c) ==
    CASE c = "a" -> "A" [] c = "b" -> "B" [] c = "e" -> "E" [] c = "x" -> "X"
      [] c = "i" -> "I" [] c = "t" -> "T" [] OTHER -> c

Lower(c) ==
    CASE c = "A" -> "a" [] c = "B" -> "b" [] c = "E" -> "e" [] c = "X" -> "x"
      [] c = "I" -> "i" [] c = "T" -> "t" [] OTHER -> c

\* str.title(): a letter after a non-letter is upper-cased, any other letter
\* lower-cased.
title(s) ==
    [i \in 1..Len(s) |-> IF i = 1 \/ s[i - 1] = " " THEN Upper(s[i]) ELSE Lower(s[i])]

RECURSIVE lstrip(_)
lstrip(s) == IF s # << >> /\ Head(s) = " " THEN lstrip(Tail(s)) ELSE s

RECURSIVE rstrip(_)
rstrip(s) ==
    IF s # << >> /\ s[Len(s)] = " " THEN rstrip(SubSeq(s, 1, Len(s) - 1)) ELSE s

\* str.strip()
strip(s) == rstrip(lstrip(s))

\* The length of the longest common subsequence of a[1..i] and b[1..j].
RECURSIVE lcs(_, _, _, _)
lcs(a, b, i, j) ==
    IF i = 0 \/ j = 0 THEN 0
    ELSE IF a[i] = b[j] THEN 1 + lcs(a, b, i - 1, j - 1)
    ELSE Max(lcs(a, b, i - 1, j), lcs(a, b, i, j - 1))

\* A score is a fraction <<numerator, denominator>>.
ScoreLess(x, y) == x[1] * y[2] < y[1] * x[2]
ScoreMax(x, y) == IF ScoreLess(x, y) THEN y ELSE x
Scaled(percent, x) == <<percent * x[1], 100 * x[2]>>

\* rapidfuzz.fuzz.ratio: the normalized Indel similarity, 0..100.
ratio(s1, s2) ==
    IF Len(s1) + Len(s2) = 0 THEN <<100, 1>>
    ELSE <<200 * lcs(s1, s2, Len(s1), Len(s2)), Len(s1) + Len(s2)>>

\* The windows of the longer string the shorter one is aligned with: every
\* substring of the shorter one's length, and the shorter prefixes and
\* suffixes.
windows(long, n) ==
    {SubSeq(long, i, i + n - 1) : i \in 1..(Len(long) - n + 1)}
        \cup {SubSeq(long, 1, k) : k \in 1..(n - 1)}
        \cup {SubSeq(long, Len(long) - k + 1, Len(long)) : k \in 1..(n - 1)}

\* rapidfuzz.fuzz.partial_ratio: the best ratio of the shorter string with a
\* window of the longer one.
partial_ratio(s1, s2) ==
    LET short == IF Len(s1) <= Len(s2) THEN s1 ELSE s2
        long == IF Len(s1) <= Len(s2) THEN s2 ELSE s1
        scores == {ratio(short, w) : w \in windows(long, Len(short))}
    IN  IF short = << >> THEN <<0, 1>>
        ELSE CHOOSE x \in scores : \A y \in scores : ~ScoreLess(x, y)

\* rapidfuzz.fuzz.WRatio, the default scorer of process.extractOne, on
\* strings of one token each (for these the token ratios are the plain ones).
WRatio(s1, s2) ==
    LET l1 == Len(s1)
        l2 == Len(s2)
    IN  IF l1 = 0 \/ l2 = 0 THEN <<0, 1>>
        ELSE IF 2 * Max(l1, l2) < 3 * Min(l1, l2)
        THEN ScoreMax(ratio(s1, s2), Scaled(95, ratio(s1, s2)))
        ELSE LET partial_scale == IF Max(l1, l2) < 8 * Min(l1, l2) THEN 90 ELSE 60
             IN  ScoreMax(ratio(s1, s2),
                          ScoreMax(Scaled(partial_scale, partial_ratio(s1, s2)),
                                   Scaled(95, Scaled(partial_scale, partial_ratio(s1, s2)))))

\* The words of at most n characters over an alphabet.
RECURSIVE Words(_, _)
Words(alphabet, n) ==
    IF n = 0 THEN {<< >>}
    ELSE LET shorter == Words(alphabet, n - 1)
         IN  shorter \cup {Append(w, c) : w \in shorter, c \in alphabet}

\* The longest symptom name and the longest word typed.
MaxLen == 3
RawChars == {"a", "B"}
Pads == {<< >>, <<" ">>}
CatalogSizes == {1, 2}

\* extractOne's loop over the choices from position i on: a later choice
\* replaces the best one only with a strictly higher score.
RECURSIVE extractOne_loop(_, _, _, _)
extractOne_loop(query, choices, i, best) ==
    IF i > Len(choices) THEN best
    ELSE LET score == WRatio(query, choices[i])
             found == [choice |-> choices[i], score |-> score, idx |-> i - 1]
         IN  extractOne_loop(query, choices, i + 1,
                             IF best = None \/ ScoreLess(best.score, score)
                             THEN found ELSE best)

\* process.extractOne with no score_cutoff applied.
extractOne_no_cutoff(query, choices, score_cutoff) ==
    extractOne_loop(query, choices, 1, None)

\* process.extractOne(query, choices, score_cutoff=...): the first of the
\* choices with the highest score, if that score reaches the cutoff; idx is
\* the label of the choice in the Series (0, 1, ...).
extractOne(query, choices, score_cutoff) ==
    LET best == extractOne_loop(query, choices, 1, None)
    IN  IF best = None \/ ScoreLess(best.score, <<score_cutoff, 1>>) THEN None ELSE best

\* Matcher(inp): the index label of the match, or None.
Matcher(inp) ==
    LET match == extractOne(inp, df, 70)
    IN  IF match # None THEN [idx |-> match.idx] ELSE None

\* What the user types: a word, perhaps between blanks, or "exit".
Inputs ==
    {pad \o w \o pad : pad \in Pads, w \in Words(RawChars, MaxLen)}
        \cup {<<"e", "x", "i", "t">>, <<" ", "E", "X", "I", "T">>}

\* The Symptom columns of symptom_database.csv.csv.
SymptomColumns ==
    UNION {[1..n -> Words(RawChars, MaxLen) \ {<< >>}] : n \in CatalogSizes}

\* The try block at the top of chatbot.py binds df unless read_csv raises:
\* FileNotFoundError for a missing file, EmptyDataError for one of size zero.
\* The except clause prints a message and the program goes on without df.
df_bound(file) == file.exists /\ ~SizeZero(file)

\* One pass of Chatbot()'s loop. Matcher reads the global df: NameError ends
\* the program when the try block did not bind it.
ChatbotTurn ==
    /\ running
    /\ \E inp \in Inputs :
          LET clean_input == title(strip(inp))
          IN  IF clean_input = <<"E", "x", "i", "t">>
              THEN /\ running' = FALSE
                   /\ UNCHANGED <<reply, error>>
              ELSE IF ~df_bound(symptom_csv)
              THEN /\ running' = FALSE
                   /\ error' = "NameError"
                   /\ UNCHANGED reply
              ELSE /\ reply' = [clean_input |-> clean_input,
                                idx |-> Matcher(clean_input)]
                   /\ UNCHANGED <<running, error>>
    /\ UNCHANGED <<user, profile_file, weight_log, today, planner, df, symptom_csv, logs,
                   custom_food, catalogs, views>>

\* The states symptom_database.csv.csv can be in when chatbot.py starts.
SymptomFiles ==
    {NoFile, [exists |-> TRUE, header |-> FALSE, rows |-> << >>], HeaderOnly}
        \cup {[exists |-> TRUE, header |-> TRUE,
               rows |-> [i \in DOMAIN column |-> [Symptom |-> column[i]]]] :
                 column \in SymptomColumns}

\* chatbot.py imported: the catalog read and title-cased, and Chatbot() started.
InitChatbot ==
    /\ \E file \in SymptomFiles :
          /\ symptom_csv = file
          /\ df = IF df_bound(file)
                  THEN [i \in DOMAIN file.rows |-> title(file.rows[i].Symptom)]
                  ELSE << >>
    /\ running = TRUE
    /\ reply = None
    /\ error = ""
    /\ user = Unset
    /\ profile_file = None
    /\ weight_log = NoFile
    /\ today = 1
    /\ df_food = DataFrame(<<Paneer, Chicken>>)
    /\ plan = Unset
    /\ plan_call = None
    /\ food_log = NoFile
    /\ exercise_log = NoFile
    /\ water_log = NoFile
    /\ custom_food = NoFile
    /\ food_db = [exists |-> TRUE, header |-> TRUE, rows |-> <<Paneer, Chicken>>]
    /\ exercise_db = NoFile
    /\ symptom_db = NoFile
    /\ stats = None
    /\ dashboard = None

NextChatbot == ChatbotTurn

SpecChatbot == InitChatbot /\ [][NextChatbot]_vars

\* C4: Matcher returns an entry only if no entry scores higher and its score
\* is at least 70; it returns None when no entry scores at least 70; and an
\* input whose normalized form is a catalog name gets an entry of that name.
C4_MatcherReturnsBestAboveThreshold ==
    reply # None =>
        LET q == reply.clean_input
            scores == [i \in DOMAIN df |-> WRatio(q, df[i])]
            score(i) == scores[i]
        IN  /\ reply.idx # None =>
                 /\ reply.idx.idx + 1 \in DOMAIN df
                 /\ ~ScoreLess(score(reply.idx.idx + 1), <<70, 1>>)
                 /\ \A j \in DOMAIN df : ~ScoreLess(score(reply.idx.idx + 1), score(j))
            /\ (\A j \in DOMAIN df : ScoreLess(score(j), <<70, 1>>)) => reply.idx = None
            /\ (\E j \in DOMAIN df : df[j] = q) =>
                 /\ reply.idx # None
                 /\ df[reply.idx.idx + 1] = q

\* An input matched to the second of two entries, which is not spelled like
\* the input and scores above the first entry.
C4_Witness ==
    /\ reply # None
    /\ reply.idx = [idx |-> 1]
    /\ df[2] # reply.clean_input
    /\ ScoreLess(WRatio(reply.clean_input, df[1]), WRatio(reply.clean_input, df[2]))

(***************************************************************************)
(* 6. The logs, the aggregators, the catalogs and the reset (src/p3.py),   *)
(*    for a user who has finished the setup form.                          *)
(***************************************************************************)

\* The files beside the script: as the application creates them, or with the
\* user's own food catalog (no Diet column), a food log of size zero and the
\* exercise log missing.
StoreSetups ==
    {[food_db |-> created(NoFile, default_food_db), food_log |-> HeaderOnly,
      exercise_log |-> HeaderOnly],
     [food_db |-> created(NoFile, <<EggCurry, DalFry>>),
      food_log |-> [exists |-> TRUE, header |-> FALSE, rows |-> << >>],
      exercise_log |-> NoFile]}

\* The variables the logging pages leave alone.
IdleParts ==
    /\ user = Loss2045
    /\ profile_file = Loss2045
    /\ weight_log = HeaderOnly
    /\ water_log = HeaderOnly
    /\ custom_food = NoFile
    /\ exercise_db = created(NoFile, default_exercise_db)
    /\ symptom_db = created(NoFile, default_symptom_db)
    /\ df_food = load_databases(food_db, custom_food)
    /\ stats = None
    /\ dashboard = None
    /\ plan = Unset
    /\ plan_call = None
    /\ df = << >>
    /\ running = FALSE
    /\ reply = None
    /\ symptom_csv = NoFile
    /\ error = ""

InitStore ==
    /\ \E setup \in StoreSetups :
          /\ food_db = setup.food_db
          /\ food_log = setup.food_log
          /\ exercise_log = setup.exercise_log
    /\ today = 1
    /\ IdleParts

NextStore ==
    ScriptRun \/ LogMeal \/ SaveFood \/ LogDrink \/ LogWorkout \/ ResetAllData \/ NextDay

SpecStore == InitStore /\ [][NextStore]_vars

\* calculate_streak on food logs of every shape: the dates of the rows are
\* days 1 to 4 or unparseable, in any order, with repetitions.
MaxStreakLog == 4
StreakDates == {NaT} \cup (1..MaxStreakLog)
StreakTodays == {MaxStreakLog, MaxStreakLog + 1}

StreakLogs ==
    {NoFile, [exists |-> TRUE, header |-> FALSE, rows |-> << >>]}
        \cup {[exists |-> TRUE, header |-> TRUE, rows |-> rows] :
                rows \in UNION {[1..n -> {food_entry(d, Paneer, "Lunch", 15) : d \in StreakDates}] :
                                   n \in 0..MaxStreakLog}}

InitStreak ==
    /\ food_log \in StreakLogs
    /\ today \in StreakTodays
    /\ food_db = created(NoFile, default_food_db)
    /\ exercise_log = HeaderOnly
    /\ IdleParts

NextStreak == ScriptRun

SpecStreak == InitStreak /\ [][NextStreak]_vars

(***************************************************************************)
(* Claims about the logs, the aggregators, the catalogs and the reset.     *)
(***************************************************************************)

\* The calendar days the food log has a row for.
LoggedDays == {food_log.rows[i].Date : i \in DOMAIN food_log.rows} \ {NaT}

\* The day a streak ends at: today, or yesterday when today has no entry.
StreakEnd == IF today \in LoggedDays THEN today ELSE today - 1

\* The length of the maximal run of logged days that ends at StreakEnd.
RunLength ==
    CHOOSE n \in 0..Cardinality(LoggedDays) :
        /\ \A k \in 0..(n - 1) : StreakEnd - k \in LoggedDays
        /\ StreakEnd - n \notin LoggedDays

\* C11: calculate_streak returns the length of the maximal run of consecutive
\* logged days that ends at today, or at yesterday when today has no entry: 0
\* for an empty log or when neither day is logged, 1 when only today is logged,
\* and rows whose date cannot be parsed are ignored.
C11_StreakIsRunEndingTodayOrYesterday ==
    dashboard # None =>
        /\ dashboard.streak = RunLength
        /\ (LoggedDays = {} => dashboard.streak = 0)
        /\ (today \notin LoggedDays /\ today - 1 \notin LoggedDays => dashboard.streak = 0)
        /\ (LoggedDays = {today} => dashboard.streak = 1)

\* Today has no entry, yesterday and the day before have, the day before that
\* is a gap, an older day is logged and one row has an unparseable date.
C11_Witness ==
    /\ dashboard # None
    /\ dashboard.streak = 2
    /\ today \notin LoggedDays
    /\ today - 3 \notin LoggedDays
    /\ today - 4 \in LoggedDays
    /\ \E i \in DOMAIN food_log.rows : food_log.rows[i].Date = NaT

\* A logged amount in tenths, as an integer (the amounts logged here are exact
\* multiples of a tenth).
Tenths(d) == DTrunc(DMul(d, DFromInt(10)))

\* The exact sum, in tenths, of a column over the rows dated now.
RECURSIVE TenthsOn(_, _, _)
TenthsOn(rows, column, now) ==
    IF rows = << >> THEN 0
    ELSE TenthsOn(Tail(rows), column, now)
            + (IF Head(rows).Date = now THEN Tenths(Head(rows)[column]) ELSE 0)

\* The stats are the sums over exactly the rows dated now.
StatsAre(st, food_rows, exercise_rows, now) ==
    /\ Tenths(st.eaten) = TenthsOn(food_rows, "Calories", now)
    /\ Tenths(st.protein) = TenthsOn(food_rows, "Protein", now)
    /\ Tenths(st.burnt) = TenthsOn(exercise_rows, "Calories_Burnt", now)

\* One more row in the log file: what it adds to a total of the day now.
AddedTenths(before, after, column, now) ==
    IF after.rows[Len(after.rows)].Date = now
    THEN Tenths(after.rows[Len(after.rows)][column]) ELSE 0

\* C12: get_daily_stats returns eaten and protein equal to the sums over
\* exactly the food rows dated today and burnt equal to the sum over exactly the
\* exercise rows dated today (zero for missing logs); a script run shows these
\* sums of the logs it found; one more food row dated today raises eaten and
\* protein by exactly its values, and a row with another date changes nothing.
C12_StatsAreSumsOfTodaysEntries ==
    [][/\ StatsAre(get_daily_stats(food_log', exercise_log', today'),
                   food_log'.rows, exercise_log'.rows, today')
       /\ (session_user # None /\ today' = today) =>
              StatsAre(stats', food_log.rows, exercise_log.rows, today)
       /\ (today' = today /\ Len(food_log'.rows) = Len(food_log.rows) + 1) =>
              /\ Tenths(get_daily_stats(food_log', exercise_log', today).eaten)
                    = Tenths(get_daily_stats(food_log, exercise_log, today).eaten)
                        + AddedTenths(food_log, food_log', "Calories", today)
              /\ Tenths(get_daily_stats(food_log', exercise_log', today).protein)
                    = Tenths(get_daily_stats(food_log, exercise_log, today).protein)
                        + AddedTenths(food_log, food_log', "Protein", today)
              /\ get_daily_stats(food_log', exercise_log', today).burnt
                    = get_daily_stats(food_log, exercise_log, today).burnt
       /\ (today' = today /\ Len(exercise_log'.rows) = Len(exercise_log.rows) + 1) =>
              Tenths(get_daily_stats(food_log', exercise_log', today).burnt)
                 = Tenths(get_daily_stats(food_log, exercise_log, today).burnt)
                     + AddedTenths(exercise_log, exercise_log', "Calories_Burnt", today)
      ]_vars

\* The sidebar shows what one food row of today and one workout of today add
\* up to, while the food log also holds a row of another day.
C12_Witness ==
    /\ stats # None
    /\ Tenths(stats.eaten) > 0
    /\ Tenths(stats.burnt) > 0
    /\ Len(food_log.rows) = 2
    /\ \E i, j \in DOMAIN food_log.rows :
          /\ food_log.rows[i].Date = today
          /\ food_log.rows[j].Date # today
          /\ Tenths(stats.eaten) = Tenths(food_log.rows[i].Calories)

\* C13: Reset All Data deletes the profile file and every log file (food,
\* exercise, water, weight) and leaves the three catalog files (food, exercise,
\* symptom) present with their contents unchanged.
C13_ResetKeepsCatalogs ==
    [][ResetAllData =>
          /\ profile_file' = None
          /\ food_log'.rows = << >>
          /\ exercise_log'.rows = << >>
          /\ water_log'.rows = << >>
          /\ weight_log'.rows = << >>
          /\ food_db'.exists /\ food_db' = food_db
          /\ exercise_db'.exists /\ exercise_db' = exercise_db
          /\ symptom_db'.exists /\ symptom_db' = symptom_db
      ]_vars

\* C14: a missing or zero-length symptom catalog is a valid state: the program
\* does not fail on it, and Matcher returns no match, as it does for a catalog
\* that is present but has no rows.
C14_MissingCatalogGivesNoMatch ==
    symptom_csv.rows = << >> =>
        /\ error = ""
        /\ (reply # None => reply.idx = None)

IsPrefix(a, b) == Len(a) <= Len(b) /\ SubSeq(b, 1, Len(a)) = a

C16_EveryRowHasDietClass ==
    df_food # None =>
        \A i \in DOMAIN df_food.rows :
            /\ "Diet" \in DOMAIN df_food.rows[i]
            /\ df_food.rows[i].Diet \in {"Veg", "Non-Veg"}
            /\ (df_food.rows[i].Dish_Name = "Egg Curry" => df_food.rows[i].Diet = "Non-Veg")
            /\ (df_food.rows[i].Dish_Name = "Dal Fry" => df_food.rows[i].Diet = "Veg")

\* C17: a step that stores a profile over a stored profile (Save Profile
\* Changes) leaves Start_Weight as it was set at onboarding, and carries the
\* Name, the Gender and the water target over unchanged.
C17_SettingsKeepStartWeight ==
    [][(profile_file # None /\ profile_file' # None) =>
           /\ profile_file'.Start_Weight = profile_file.Start_Weight
           /\ profile_file'.Name = profile_file.Name
           /\ profile_file'.Gender = profile_file.Gender
           /\ profile_file'.Targets.Water = profile_file.Targets.Water]_vars

\* C18: the step that stores the first profile (the setup form, after
\* initialize_databases) leaves in the weight log an entry with that day's
\* date and the onboarding weight.
C18_OnboardingWritesWeightLog ==
    [][(profile_file = None /\ profile_file' # None) =>
           \E i \in DOMAIN weight_log'.rows :
               weight_log'.rows[i] = [Date |-> today, Weight |-> profile_file'.Start_Weight]]_vars
====
